---- MODULE Spec2Model ----
(***************************************************************************)
(* hyprconf: discovery of Hypr configuration files (scan.rs, model.rs),    *)
(* the selection-line renderer and the picker (ui.rs, tui.rs) and the      *)
(* main flow (main.rs).                                                    *)
(*                                                                         *)
(* Text.  A Rust String is a sequence of Unicode scalar values: a tuple    *)
(* of code points.  An OsString (a file name as the file system holds it)  *)
(* is a tuple of integers in which a negative number -b stands for the     *)
(* byte b that is not part of valid UTF-8.  Byte lengths (str::len) and    *)
(* character counts (chars().count()) are kept apart.                      *)
(***************************************************************************)
(* Every value an operator uses more than once is handed to it as a        *)
(* parameter, so each definition reads as one step of the code it models.  *)
EXTENDS Integers, Sequences, FiniteSets, TLC

VARIABLES tree, pc, discovered, out, prev, adapter, category, seg_colors,
          items, selected, returned, launched, call

vars == <<tree, pc, discovered, out, prev, adapter, category, seg_colors,
          items, selected, returned, launched, call>>

\* the variables of the runs of main()
run == <<tree, pc, discovered, out, prev, adapter, category, seg_colors,
         items, selected, returned, launched>>

\* what a run of main() sets from the picker on
picking == <<adapter, category, seg_colors, items, selected, returned, launched>>

----------------------------------------------------------------------------
(* Option<T>: None is the empty tuple, Some(x) the one-element tuple.      *)
None == << >>
Some(x) == <<x>>
IsSome(o) == o /= None
Unwrap(o) == o[1]

(* The characters the model names.                                         *)
Ch == [tab |-> 9, nl |-> 10, sp |-> 32, bang |-> 33, hash |-> 35,
       lparen |-> 40, rparen |-> 41, hyphen |-> 45, dot |-> 46,
       slash |-> 47, colon |-> 58, semi |-> 59, lbrack |-> 91,
       rbrack |-> 93, pipe |-> 124, endash |-> 8211, emdash |-> 8212,
       replacement |-> 65533]

(* char::is_whitespace (the Unicode White_Space property).                 *)
WhiteSpace == {9, 10, 11, 12, 13, 32, 133, 160, 5760, 8232, 8233, 8239,
               8287, 12288} \cup (8192 .. 8202)
IsWhitespace(c) == c \in WhiteSpace

(* char::len_utf8.                                                         *)
ByteLen(c) == IF c < 128 THEN 1 ELSE IF c < 2048 THEN 2
              ELSE IF c < 65536 THEN 3 ELSE 4

(* str::len: the length in bytes.                                          *)
RECURSIVE StrLen(_)
StrLen(s) == IF s = << >> THEN 0 ELSE ByteLen(Head(s)) + StrLen(Tail(s))

(* A count of the bytes where the characters are to be counted.            *)
CharCountBytes(s) == StrLen(s)

(* str::chars().count().                                                   *)
CharCount(s) == Len(s)

(* char::to_lowercase on the Basic Latin and Latin-1 letters.              *)
LowerChar(c) == IF c \in 65 .. 90 THEN c + 32
                ELSE IF c \in (192 .. 222) \ {215} THEN c + 32 ELSE c
ToLowercase(s) == [i \in 1 .. Len(s) |-> LowerChar(s[i])]

(* str::trim_start, str::trim.                                             *)
RECURSIVE TrimStart(_)
TrimStart(s) == IF s /= << >> /\ IsWhitespace(Head(s)) THEN TrimStart(Tail(s))
                ELSE s
RECURSIVE TrimEnd(_)
TrimEnd(s) == IF s /= << >> /\ IsWhitespace(s[Len(s)])
              THEN TrimEnd(SubSeq(s, 1, Len(s) - 1)) ELSE s
Trim(s) == TrimEnd(TrimStart(s))

(* str::starts_with.                                                       *)
StartsWith(s, p) == Len(s) >= Len(p) /\ SubSeq(s, 1, Len(p)) = p

(* str::trim_start_matches(&str): the prefix is removed as often as it     *)
(* repeats.                                                                *)
RECURSIVE TrimStartMatches(_, _)
TrimStartMatches(s, p) ==
    IF p /= << >> /\ StartsWith(s, p)
    THEN TrimStartMatches(SubSeq(s, Len(p) + 1, Len(s)), p) ELSE s

(* Ord for String: lexicographic by bytes, which for UTF-8 is the order    *)
(* of the code points.                                                     *)
RECURSIVE StrLess(_, _)
StrLess(a, b) ==
    IF b = << >> THEN FALSE
    ELSE IF a = << >> THEN TRUE
    ELSE IF Head(a) /= Head(b) THEN Head(a) < Head(b)
    ELSE StrLess(Tail(a), Tail(b))

(* OsStr::to_string_lossy, Path::display: every byte that is not valid     *)
(* UTF-8 becomes U+FFFD.                                                   *)
Lossy(raw) == [i \in 1 .. Len(raw) |->
                 IF raw[i] < 0 THEN Ch.replacement ELSE raw[i]]

(* String::from_utf8 as BufRead::lines applies it: an error on a line      *)
(* that holds a byte that is not valid UTF-8.                              *)
ValidUtf8(raw) == \A i \in 1 .. Len(raw) : raw[i] >= 0

----------------------------------------------------------------------------
(* model.rs                                                                *)

Categories == {"Hyprland", "Utility", "Themes", "Plugins", "ConfD", "Scripts"}

(* impl Display for Category: "hyprland", "utility", "themes", "plugins",  *)
(* "conf.d", "scripts".                                                    *)
CategoryLabel(c) ==
    CASE c = "Hyprland" -> <<104, 121, 112, 114, 108, 97, 110, 100>>
      [] c = "Utility"  -> <<117, 116, 105, 108, 105, 116, 121>>
      [] c = "Themes"   -> <<116, 104, 101, 109, 101, 115>>
      [] c = "Plugins"  -> <<112, 108, 117, 103, 105, 110, 115>>
      [] c = "ConfD"    -> <<99, 111, 110, 102, 46, 100>>
      [] c = "Scripts"  -> <<115, 99, 114, 105, 112, 116, 115>>

(* ConfigEntry::sort_key, first component.                                 *)
CatOrder(c) ==
    CASE c = "Hyprland" -> 0
      [] c = "Utility"  -> 1
      [] c = "Themes"   -> 2
      [] c = "Plugins"  -> 3
      [] c = "ConfD"    -> 4
      [] c = "Scripts"  -> 5

(* A second component that takes the alias for conf.d as well.             *)
WithinAlias(e) == ToLowercase(e.alias)

(* ConfigEntry::sort_key, second component.                                *)
Within(e) ==
    IF e.category = "ConfD" THEN ToLowercase(e.file_name)
    ELSE ToLowercase(e.alias)

sort_key(e) == <<CatOrder(e.category), Within(e)>>

(* Ord for (u8, String).                                                   *)
KeyLess(k1, k2) == k1[1] < k2[1] \/ (k1[1] = k2[1] /\ StrLess(k1[2], k2[2]))

----------------------------------------------------------------------------
(* scan.rs                                                                 *)

\* "#", "//", ";"
COMMENT_PREFIXES == << <<35>>, <<47, 47>>, <<59>> >>

(* COMMENT_PREFIXES.iter().find(|p| trimmed.starts_with(p))                *)
FindPrefix(trimmed) ==
    IF \E i \in 1 .. Len(COMMENT_PREFIXES) : StartsWith(trimmed, COMMENT_PREFIXES[i])
    THEN Some(COMMENT_PREFIXES[
             CHOOSE i \in 1 .. Len(COMMENT_PREFIXES) :
                /\ StartsWith(trimmed, COMMENT_PREFIXES[i])
                /\ \A j \in 1 .. i - 1 : ~StartsWith(trimmed, COMMENT_PREFIXES[j])])
    ELSE None

(* if !content.is_empty() { return Ok(Some(content)) }                     *)
NonEmptyContent(content) == IF content /= << >> THEN Some(content) ELSE None

(* trimmed.trim_start_matches(prefix).trim(), for the prefix found.        *)
ContentAfter(trimmed, prefix) ==
    IF prefix = None THEN None
    ELSE NonEmptyContent(Trim(TrimStartMatches(trimmed, Unwrap(prefix))))

(* The body of the loop of first_comment_line for a trimmed line: a        *)
(* shebang is skipped.                                                     *)
TrimmedContent(trimmed) ==
    IF StartsWith(trimmed, <<Ch.hash, Ch.bang>>) THEN None
    ELSE ContentAfter(trimmed, FindPrefix(trimmed))

(* The body of the loop of first_comment_line for one line: the content    *)
(* it returns, or None when the loop goes on to the next line (a line      *)
(* that cannot be read as UTF-8 is passed over).                           *)
LineContent(line) ==
    IF ~ValidUtf8(line) THEN None ELSE TrimmedContent(Trim(line))

(* FirstCommentFrom reading one line more than the budget (i > max_lines). *)
RECURSIVE FirstCommentFromOneMore(_, _, _)
FirstCommentFromOneMore(lines, i, max_lines) ==
    IF i >= Len(lines) \/ i > max_lines THEN None
    ELSE IF LineContent(lines[i + 1]) /= None THEN LineContent(lines[i + 1])
    ELSE FirstCommentFromOneMore(lines, i + 1, max_lines)

(* The loop of first_comment_line from the line of index i (counted from   *)
(* 0).                                                                     *)
RECURSIVE FirstCommentFrom(_, _, _)
FirstCommentFrom(lines, i, max_lines) ==
    IF i >= Len(lines) \/ i >= max_lines THEN None
    ELSE IF LineContent(lines[i + 1]) /= None THEN LineContent(lines[i + 1])
    ELSE FirstCommentFrom(lines, i + 1, max_lines)

(* first_comment_line: file is the file at the path, [readable, lines].    *)
first_comment_line(file, max_lines) ==
    IF ~file.readable THEN None
    ELSE FirstCommentFrom(file.lines, 0, max_lines)

(* str::split_once('-'): the index of the first '-', 0 when there is none. *)
FirstIndexOf(s, c) ==
    IF \E i \in 1 .. Len(s) : s[i] = c
    THEN CHOOSE i \in 1 .. Len(s) : s[i] = c /\ \A j \in 1 .. i - 1 : s[j] /= c
    ELSE 0

(* if let Some((_num, rest)) = ... { rest } else { file_stem }             *)
RestAfter(file_stem, k) ==
    IF k > 0 THEN SubSeq(file_stem, k + 1, Len(file_stem)) ELSE file_stem

alias_from_conf_d(file_stem) ==
    RestAfter(file_stem, FirstIndexOf(file_stem, Ch.hyphen))

(* The separators strip_alias_prefix drops after the alias.                *)
IsSeparator(c) ==
    IsWhitespace(c) \/ c \in {Ch.hyphen, Ch.emdash, Ch.endash, Ch.colon, Ch.pipe}

(* s.trim_start_matches(|c| c.is_whitespace() || matches!(c, ...))         *)
RECURSIVE DropSeparators(_)
DropSeparators(s) ==
    IF s /= << >> /\ IsSeparator(Head(s)) THEN DropSeparators(Tail(s)) ELSE s

(* The number of leading characters of s that fill exactly n bytes, or -1  *)
(* when byte n of s is not a character boundary (the slice s[..n] panics). *)
CharsInBytes(s, n) ==
    IF \E k \in 0 .. Len(s) : StrLen(SubSeq(s, 1, k)) = n
    THEN CHOOSE k \in 0 .. Len(s) : StrLen(SubSeq(s, 1, k)) = n
    ELSE -1

(* strip_alias_prefix once the slice s[..alias.len()] is known to hold k   *)
(* characters.                                                             *)
StripAt(alias_lc, trimmed, k) ==
    IF k < 0 THEN [panicked |-> TRUE, value |-> << >>]
    ELSE IF ToLowercase(SubSeq(trimmed, 1, k)) = alias_lc
    THEN [panicked |-> FALSE,
          value |-> TrimStart(DropSeparators(SubSeq(trimmed, k + 1, Len(trimmed))))]
    ELSE [panicked |-> FALSE, value |-> trimmed]

(* strip_alias_prefix on the trimmed description; n is alias.len(), the    *)
(* byte length of the alias as given.                                      *)
StripTrimmed(alias_lc, trimmed, n) ==
    IF trimmed = << >> THEN [panicked |-> FALSE, value |-> << >>]
    ELSE IF StrLen(trimmed) >= n
    THEN StripAt(alias_lc, trimmed, CharsInBytes(trimmed, n))
    ELSE [panicked |-> FALSE, value |-> trimmed]

(* strip_alias_prefix: [panicked, value].  The slice is compared with the  *)
(* trimmed, lower-cased alias.                                             *)
strip_alias_prefix(alias, desc) ==
    StripTrimmed(ToLowercase(Trim(alias)), Trim(desc), StrLen(alias))

(* A file of the tree: [dir, name, readable, lines, exec], dir being        *)
(* "root" or the name of one of the four subdirectories scan_configs       *)
(* reads, name the file name as the directory holds it, lines the content  *)
(* as BufRead::lines splits it, exec whether a mode bit of 0o111 is set.   *)
(* A path is [dir, name] under the root.                                   *)
PathOf(f) == [dir |-> f.dir, name |-> f.name]

\* "/h": the root directory Cli::resolve_root gives
RootPath == <<47, 104>>

(* Path::join of the root and the subdirectory, with the separator that    *)
(* precedes the file name.                                                 *)
DirPrefix(dir) ==
    RootPath \o
    (CASE dir = "root"    -> <<Ch.slash>>
       [] dir = "conf.d"  -> <<47, 99, 111, 110, 102, 46, 100, 47>>
       [] dir = "themes"  -> <<47, 116, 104, 101, 109, 101, 115, 47>>
       [] dir = "plugins" -> <<47, 112, 108, 117, 103, 105, 110, 115, 47>>
       [] dir = "scripts" -> <<47, 115, 99, 114, 105, 112, 116, 115, 47>>)

(* path.display(), path.to_string_lossy()                                  *)
PathDisplay(path) == DirPrefix(path.dir) \o Lossy(path.name)

(* The index of the '.' at which Path::file_stem and Path::extension split *)
(* the file name: the last one, unless the name has none or only a leading *)
(* one (0).                                                                *)
SplitDot(name) ==
    IF \E i \in 2 .. Len(name) : name[i] = Ch.dot
    THEN CHOOSE i \in 2 .. Len(name) :
            name[i] = Ch.dot /\ \A j \in i + 1 .. Len(name) : name[j] /= Ch.dot
    ELSE 0

StemAt(name, k) == IF k = 0 THEN name ELSE SubSeq(name, 1, k - 1)
FileStem(name) == StemAt(name, SplitDot(name))

ExtensionAt(name, k) == IF k = 0 THEN None ELSE Some(SubSeq(name, k + 1, Len(name)))
Extension(name) == ExtensionAt(name, SplitDot(name))

\* "conf"
ConfExt == <<99, 111, 110, 102>>

(* path.extension().map(|e| e == "conf").unwrap_or(false)                  *)
IsConf(name) == Extension(name) = Some(ConfExt)

(* The line budget entry_for_path and scan_configs give first_comment_line.*)
MaxLinesFor(cat) == IF cat = "Utility" THEN 20 ELSE 10

\* "hyprland"
HyprlandAlias == <<104, 121, 112, 114, 108, 97, 110, 100>>

ConfigEntry(path, file_name, alias, description, cat) ==
    [path |-> path, file_name |-> file_name, alias |-> alias,
     description |-> description, category |-> cat]

(* The alias entry_for_path gives a category, from the file stem.          *)
AliasFor(cat, stem) ==
    CASE cat = "Hyprland" -> HyprlandAlias
      [] cat = "ConfD"    -> alias_from_conf_d(stem)
      [] OTHER            -> stem

(* entry_for_path from the stripped description on.                        *)
EntryStripped(f, cat, alias, stripped) ==
    IF stripped.panicked THEN [panicked |-> TRUE, entry |-> None]
    ELSE [panicked |-> FALSE,
          entry |-> Some(ConfigEntry(PathOf(f), Lossy(f.name), alias,
                                     Some(stripped.value), cat))]

(* entry_for_path from the alias and the first comment line on.            *)
EntryFrom(f, cat, alias, desc) ==
    IF desc = None
    THEN [panicked |-> FALSE,
          entry |-> Some(ConfigEntry(PathOf(f), Lossy(f.name), alias, None, cat))]
    ELSE EntryStripped(f, cat, alias, strip_alias_prefix(alias, Unwrap(desc)))

(* entry_for_path: [panicked, entry].                                      *)
entry_for_path(f, cat) ==
    EntryFrom(f, cat, AliasFor(cat, Lossy(FileStem(f.name))),
              first_comment_line(f, MaxLinesFor(cat)))

(* The ConfigEntry literal scan_configs builds for a theme, a plugin or a  *)
(* script.                                                                 *)
InlineEntry(f, cat) ==
    [panicked |-> FALSE,
     entry |-> Some(ConfigEntry(PathOf(f), Lossy(f.name), Lossy(FileStem(f.name)),
                                first_comment_line(f, MaxLinesFor(cat)), cat))]

(* What scan_configs pushes for a file it takes: through entry_for_path    *)
(* for hyprland.conf, the utilities and conf.d, a literal otherwise.       *)
Push(f, cat) ==
    IF cat \in {"Hyprland", "Utility", "ConfD"} THEN entry_for_path(f, cat)
    ELSE InlineEntry(f, cat)

\* "hyprland.conf"
HyprlandConf == <<104, 121, 112, 114, 108, 97, 110, 100, 46, 99, 111, 110, 102>>

\* ["hyprpaper.conf", "hyprlock.conf", "hypridle.conf"]
UtilityConfs ==
    << <<104, 121, 112, 114, 112, 97, 112, 101, 114, 46, 99, 111, 110, 102>>,
       <<104, 121, 112, 114, 108, 111, 99, 107, 46, 99, 111, 110, 102>>,
       <<104, 121, 112, 114, 105, 100, 108, 101, 46, 99, 111, 110, 102>> >>

(* Ord for (u8, String) on the sort keys of two entries.                   *)
EntryLess(a, b) == KeyLess(sort_key(a), sort_key(b))

(* out.sort_by_key(|e| e.sort_key()): a stable sort, here by insertion     *)
(* after the last element whose key is not greater.                        *)
RECURSIVE InsertByKey(_, _)
InsertByKey(sorted, e) ==
    IF sorted = << >> THEN <<e>>
    ELSE IF EntryLess(e, sorted[Len(sorted)])
    THEN Append(InsertByKey(SubSeq(sorted, 1, Len(sorted) - 1), e),
                sorted[Len(sorted)])
    ELSE Append(sorted, e)

RECURSIVE SortByKey(_)
SortByKey(s) ==
    IF s = << >> THEN << >>
    ELSE InsertByKey(SortByKey(SubSeq(s, 1, Len(s) - 1)), s[Len(s)])

(* The files of one well-known location that scan_configs takes, in the    *)
(* order of the listing, each with its category.                           *)
Taken(listing, cat) ==
    LET Take(f) ==
          CASE cat = "Hyprland" -> f.dir = "root" /\ f.name = HyprlandConf
            [] cat = "ConfD"    -> f.dir = "conf.d" /\ IsConf(f.name)
            [] cat = "Themes"   -> f.dir = "themes" /\ IsConf(f.name)
            [] cat = "Plugins"  -> f.dir = "plugins" /\ IsConf(f.name)
            [] cat = "Scripts"  -> f.dir = "scripts" /\ f.exec
    IN  [i \in 1 .. Len(SelectSeq(listing, Take)) |->
            <<SelectSeq(listing, Take)[i], cat>>]

(* for util in [...] { if p.exists() { ... } }                             *)
TakenUtility(listing, name) ==
    LET Take(f) == f.dir = "root" /\ f.name = name
    IN  [i \in 1 .. Len(SelectSeq(listing, Take)) |->
            <<SelectSeq(listing, Take)[i], "Utility">>]

(* The files scan_configs takes, in the order it pushes them; listing is   *)
(* the files of the tree in the order std::fs::read_dir yields them.       *)
ScanOrder(listing) ==
    Taken(listing, "Hyprland")
    \o TakenUtility(listing, UtilityConfs[1])
    \o TakenUtility(listing, UtilityConfs[2])
    \o TakenUtility(listing, UtilityConfs[3])
    \o Taken(listing, "ConfD") \o Taken(listing, "Themes")
    \o Taken(listing, "Plugins") \o Taken(listing, "Scripts")

(* The pushes of scan_configs, each [panicked, entry].                     *)
Pushes(order) == [i \in 1 .. Len(order) |-> Push(order[i][1], order[i][2])]

(* scan_configs from its pushes on: a panic ends the scan, else the        *)
(* entries are sorted.                                                     *)
Collect(pushes) ==
    IF \E i \in 1 .. Len(pushes) : pushes[i].panicked
    THEN [panicked |-> TRUE, pushed |-> << >>]
    ELSE [panicked |-> FALSE,
          pushed |-> [i \in 1 .. Len(pushes) |-> Unwrap(pushes[i].entry)]]

(* scan_configs before the sort: [panicked, pushed], pushed the Vec out as *)
(* the scan filled it.                                                     *)
scan_configs(listing) == Collect(Pushes(ScanOrder(listing)))

----------------------------------------------------------------------------
(* ui.rs                                                                   *)

(* The separator literal of ui.rs between the alias and the description:   *)
(* a space, U+00E2, U+20AC, U+201D, a space (ten bytes, five characters).  *)
UiSep == <<32, 226, 8364, 8221, 32>>

(* e.description.as_deref().unwrap_or("")                                  *)
DescOrEmpty(e) == IF e.description = None THEN << >> ELSE Unwrap(e.description)

(* if desc.trim().is_empty() { "" } else { <separator> }                   *)
SepFor(desc, sep) == IF Trim(desc) = << >> THEN << >> ELSE sep

(* format!("| {} ({})", e.file_name, e.path.display())                     *)
FileTrail(e) ==
    <<Ch.pipe, Ch.sp>> \o e.file_name \o <<Ch.sp, Ch.lparen>>
    \o PathDisplay(e.path) \o <<Ch.rparen>>

(* format!("[{cat}] {alias}{sep}{desc} | {file} ({path})")                 *)
FormatLine(e, sep, desc) ==
    <<Ch.lbrack>> \o CategoryLabel(e.category) \o <<Ch.rbrack, Ch.sp>>
    \o e.alias \o sep \o desc
    \o <<Ch.sp, Ch.pipe, Ch.sp>> \o e.file_name
    \o <<Ch.sp, Ch.lparen>> \o PathDisplay(e.path) \o <<Ch.rparen>>

DisplayWith(e, sep, desc) == FormatLine(e, SepFor(desc, sep), desc)

(* The display string of an entry, with the separator literal of the file. *)
DisplayLine(e, sep) == DisplayWith(e, sep, DescOrEmpty(e))

(* The pieces build_colored_line moves its running index idx over, in      *)
(* order, each [text, colored]: a fragment is pushed for the colored ones. *)
PiecesWith(e, sep, desc) ==
    << [text |-> <<Ch.lbrack>>, colored |-> FALSE],
       [text |-> CategoryLabel(e.category), colored |-> TRUE],
       [text |-> <<Ch.rbrack, Ch.sp>>, colored |-> FALSE],
       [text |-> e.alias, colored |-> TRUE] >>
    \o (IF sep /= << >>
        THEN << [text |-> sep, colored |-> FALSE],
                [text |-> desc, colored |-> TRUE] >>
        ELSE << >>)
    \o << [text |-> <<Ch.sp>>, colored |-> FALSE],
          [text |-> FileTrail(e), colored |-> TRUE] >>

Pieces(e, desc) == PiecesWith(e, SepFor(desc, UiSep), desc)

(* idx += piece.chars().count(), with fragments.push((attr, (idx, idx +    *)
(* len))) before it for a colored piece: half-open ranges <<start, end>>.  *)
RECURSIVE Walk(_, _)
Walk(pieces, idx) ==
    IF pieces = << >> THEN << >>
    ELSE (IF Head(pieces).colored
          THEN << <<idx, idx + CharCount(Head(pieces).text)>> >> ELSE << >>)
         \o Walk(Tail(pieces), idx + CharCount(Head(pieces).text))

(* The fragments of build_colored_line.                                    *)
Fragments(e) == Walk(Pieces(e, DescOrEmpty(e)), 0)

(* build_colored_line from the base string on.                             *)
Colored(e, base, enable) ==
    [text |-> base,
     display |-> [text |-> base,
                  fragments |-> IF enable THEN Fragments(e) ELSE << >>]]

(* build_colored_line: the plain text and the AnsiString, [text,           *)
(* fragments].                                                             *)
build_colored_line(e, enable) == Colored(e, DisplayLine(e, UiSep), enable)

(* A pre-filter that keeps every entry.                                    *)
FilteredAll(entries, cat) == entries

(* The pre-filter of Picker::pick.                                         *)
Filtered(entries, cat) ==
    LET Keep(e) == cat = None \/ e.category = Unwrap(cat)
    IN  SelectSeq(entries, Keep)

(* ColoredItem { id_path, text, display, index }                           *)
ColoredItem(e, line, i) ==
    [text |-> line.text, display |-> line.display,
     id_path |-> PathDisplay(e.path), index |-> i]

(* The items Picker::pick sends for the filtered entries.                  *)
ItemsOf(filtered, enable) ==
    [i \in 1 .. Len(filtered) |->
        ColoredItem(filtered[i], build_colored_line(filtered[i], enable), i - 1)]

(* ui.rs, Picker::pick up to Skim::run_with: the ColoredItems sent.        *)
UiItems(entries, cat, enable) == ItemsOf(Filtered(entries, cat), enable)

(* filtered.iter().find(|e| e.path.to_string_lossy() == *path_out)         *)
FindByPath(filtered, path_out) ==
    IF \E i \in 1 .. Len(filtered) : PathDisplay(filtered[i].path) = path_out
    THEN Some(filtered[
             CHOOSE i \in 1 .. Len(filtered) :
                /\ PathDisplay(filtered[i].path) = path_out
                /\ \A j \in 1 .. i - 1 : PathDisplay(filtered[j].path) /= path_out])
    ELSE None

(* A result that does not look at is_abort.                                *)
UiPickResultNoAbort(entries, cat, its, sel) ==
    IF ~sel.some \/ sel.first = 0 THEN None
    ELSE FindByPath(Filtered(entries, cat), its[sel.first].id_path)

(* ui.rs, Picker::pick after Skim::run_with.  sel is what the selector     *)
(* gave: [some, is_abort, first], first the position in its items of       *)
(* selected_items.first(), 0 when selected_items is empty.                 *)
UiPickResult(entries, cat, its, sel) ==
    IF ~sel.some \/ sel.is_abort \/ sel.first = 0 THEN None
    ELSE FindByPath(Filtered(entries, cat), its[sel.first].id_path)

----------------------------------------------------------------------------
(* tui.rs                                                                  *)

(* The separator literal of tui.rs: a space, U+2014, a space.              *)
TuiSep == <<32, 8212, 32>>

(* The decimal digits of the Display of a usize.                           *)
RECURSIVE Decimal(_)
Decimal(n) == IF n < 10 THEN <<48 + n>> ELSE Decimal(n \div 10) \o <<48 + (n % 10)>>

(* usize::from_str: digits after an optional '+', Some(value) or None.     *)
RECURSIVE DigitsValue(_)
DigitsValue(s) ==
    IF s = << >> THEN 0 ELSE 10 * DigitsValue(SubSeq(s, 1, Len(s) - 1)) + (s[Len(s)] - 48)

ParseDigits(s) ==
    IF s /= << >> /\ \A i \in 1 .. Len(s) : s[i] \in 48 .. 57
    THEN Some(DigitsValue(s)) ELSE None

ParseUsize(s) == IF s /= << >> /\ s[1] = 43 THEN ParseDigits(Tail(s)) ELSE ParseDigits(s)

(* format!("{display}\t{path}\t{pos}")                                     *)
TuiLine(e, pos) ==
    DisplayLine(e, TuiSep) \o <<Ch.tab>> \o PathDisplay(e.path) \o <<Ch.tab>>
    \o Decimal(pos)

TuiLinesOf(filtered) ==
    [i \in 1 .. Len(filtered) |-> [text |-> TuiLine(filtered[i], i - 1)]]

(* tui.rs, Picker::pick up to the options: the lines pushed into buf, one  *)
(* for each filtered entry.                                                *)
TuiItems(entries, cat) == TuiLinesOf(Filtered(entries, cat))

(* buf: each line followed by '\n'.                                        *)
RECURSIVE Buf(_)
Buf(its) == IF its = << >> THEN << >> ELSE Head(its).text \o <<Ch.nl>> \o Buf(Tail(its))

(* SkimItemReader::of_bufread: the items it makes of the buffer, one for   *)
(* each line that ends at a '\n'.                                          *)
RECURSIVE SplitLines(_, _)
SplitLines(buf, line) ==
    IF buf = << >> THEN (IF line = << >> THEN << >> ELSE <<line>>)
    ELSE IF Head(buf) = Ch.nl THEN <<line>> \o SplitLines(Tail(buf), << >>)
    ELSE SplitLines(Tail(buf), Append(line, Head(buf)))

ReaderItems(its) == SplitLines(Buf(its), << >>)

(* The index of the last c of s, 0 when there is none.                     *)
LastIndexOf(s, c) ==
    IF \E i \in 1 .. Len(s) : s[i] = c
    THEN CHOOSE i \in 1 .. Len(s) : s[i] = c /\ \A j \in i + 1 .. Len(s) : s[j] /= c
    ELSE 0

(* output.rsplitn(2, '\t').collect(): what follows the last tab, then what *)
(* precedes it.                                                            *)
PartsAt(output, k) ==
    IF k = 0 THEN <<output>>
    ELSE <<SubSeq(output, k + 1, Len(output)), SubSeq(output, 1, k - 1)>>

RSplitTab(output) == PartsAt(output, LastIndexOf(output, Ch.tab))

(* The fallback of tui.rs: the entry whose path is the path field.         *)
TuiFallback(filtered, parts) ==
    IF Len(parts) < 2 THEN None ELSE FindByPath(filtered, Trim(parts[2]))

(* if let Some(pos) = idx_opt && let Some((_, e)) = filtered.get(pos)      *)
TuiByIndex(filtered, parts, idx_opt) ==
    IF idx_opt /= None /\ Unwrap(idx_opt) < Len(filtered)
    THEN Some(filtered[Unwrap(idx_opt) + 1])
    ELSE TuiFallback(filtered, parts)

TuiLookup(filtered, parts) == TuiByIndex(filtered, parts, ParseUsize(parts[1]))

(* tui.rs, Picker::pick after Skim::run_with; lines are the selector's     *)
(* items.                                                                  *)
TuiPickResult(entries, cat, lines, sel) ==
    IF ~sel.some \/ sel.is_abort \/ sel.first = 0 THEN None
    ELSE TuiLookup(Filtered(entries, cat), RSplitTab(lines[sel.first]))

----------------------------------------------------------------------------
(* The directory trees the model draws from.                               *)

\* the most files a tree holds
MaxFiles == 3

\* ".conf"
DotConf == <<46, 99, 111, 110, 102>>

File(dir, name, readable, lines, exec) ==
    [dir |-> dir, name |-> name, readable |-> readable, lines |-> lines,
     exec |-> exec]

(* The files a tree may hold, each a regular file at a path of its own.    *)
Universe ==
    { \* hyprland.conf: "# hyprland"
      File("root", HyprlandConf, TRUE, << <<35, 32>> \o HyprlandAlias >>, FALSE),
      \* hyprpaper.conf: "", "# Hyprpaper - wp"
      File("root", UtilityConfs[1], TRUE,
           << << >>, <<35, 32, 72, 121, 112, 114, 112, 97, 112, 101, 114,
                       32, 45, 32, 119, 112>> >>, FALSE),
      \* conf.d/0-b.conf: "# B - k"
      File("conf.d", <<48, 45, 98>> \o DotConf, TRUE,
           << <<35, 32, 66, 32, 45, 32, 107>> >>, FALSE),
      \* conf.d/a.conf: "# n"
      File("conf.d", <<97>> \o DotConf, TRUE, << <<35, 32, 110>> >>, FALSE),
      \* conf.d/A.conf, empty
      File("conf.d", <<65>> \o DotConf, TRUE, << >>, FALSE),
      \* conf.d/c.conf: "# (e acute)z"
      File("conf.d", <<99>> \o DotConf, TRUE, << <<35, 32, 233, 122>> >>, FALSE),
      \* conf.d/a.txt: "# t"
      File("conf.d", <<97, 46, 116, 120, 116>>, TRUE, << <<35, 32, 116>> >>, FALSE),
      \* themes/d.conf: "# D: x"
      File("themes", <<100>> \o DotConf, TRUE,
           << <<35, 32, 68, 58, 32, 120>> >>, FALSE),
      \* themes/<byte 0xFF>.conf and themes/<byte 0xFE>.conf, empty
      File("themes", <<-255>> \o DotConf, TRUE, << >>, FALSE),
      File("themes", <<-254>> \o DotConf, TRUE, << >>, FALSE),
      \* plugins/p.conf: "#!x", "; (e acute)(em dash)"
      File("plugins", <<112>> \o DotConf, TRUE,
           << <<35, 33, 120>>, <<59, 32, 233, 8212>> >>, FALSE),
      \* plugins/q.conf, which cannot be opened
      File("plugins", <<113>> \o DotConf, FALSE, << <<35, 32, 122>> >>, FALSE),
      \* scripts/f.sh, executable: "#!s", "# f"
      File("scripts", <<102, 46, 115, 104>>, TRUE,
           << <<35, 33, 115>>, <<35, 32, 102>> >>, TRUE),
      \* scripts/f.py, executable, empty
      File("scripts", <<102, 46, 112, 121>>, TRUE, << >>, TRUE),
      \* scripts/g, not executable
      File("scripts", <<103>>, TRUE, << <<35, 32, 103>> >>, FALSE),
      \* scripts/h<newline>i, executable, empty
      File("scripts", <<104, 10, 105>>, TRUE, << >>, TRUE) }

RECURSIVE TreesUpTo(_)
TreesUpTo(n) ==
    IF n = 0 THEN {{}}
    ELSE {t \cup more : t \in TreesUpTo(n - 1),
                        more \in {{}} \cup {{f} : f \in Universe}}

Trees == TreesUpTo(MaxFiles)

(* The orders in which std::fs::read_dir may yield the files of a tree.    *)
Listings(t) ==
    {l \in [1 .. Cardinality(t) -> t] :
        \A i, j \in 1 .. Cardinality(t) : l[i] = l[j] => i = j}

----------------------------------------------------------------------------
(* main.rs: one run of the program.                                        *)

NoCall == [fn |-> "none"]
NoSelection == [some |-> FALSE, is_abort |-> FALSE, first |-> 0]

Init ==
    /\ tree \in Trees
    /\ pc = "start"
    /\ discovered = << >>
    /\ out = << >>
    /\ prev = None
    /\ adapter = "none"
    /\ category = None
    /\ seg_colors = FALSE
    /\ items = << >>
    /\ selected = NoSelection
    /\ returned = None
    /\ launched = None
    /\ call = NoCall

(* main: scan_configs(&root), which panics when strip_alias_prefix does;   *)
(* discovered keeps the entries in the order the scan pushed them.         *)
Scan ==
    /\ pc = "start"
    /\ \E listing \in Listings(tree) :
          \E r \in {scan_configs(listing)} :
             /\ pc' = IF r.panicked THEN "panicked" ELSE "scanned"
             /\ discovered' = r.pushed
             /\ out' = SortByKey(r.pushed)
    /\ UNCHANGED <<tree, prev, picking, call>>

(* main: Picker::new, and ui.rs Picker::pick up to Skim::run_with.  The    *)
(* flag kept is enable_seg_colors: seg_colors and NO_COLOR not set.        *)
PickBuild ==
    /\ pc = "scanned"
    /\ \E cat \in {None} \cup {Some(c) : c \in Categories},
          sc \in BOOLEAN, no_color \in BOOLEAN :
          /\ category' = cat
          /\ seg_colors' = (sc /\ ~no_color)
          /\ items' = UiItems(out, cat, sc /\ ~no_color)
    /\ adapter' = "ui"
    /\ pc' = "selecting"
    /\ UNCHANGED <<tree, discovered, out, prev, selected, returned, launched, call>>

(* The same with the Picker of tui.rs, which colors no segment.            *)
TuiPickBuild ==
    /\ pc = "scanned"
    /\ \E cat \in {None} \cup {Some(c) : c \in Categories} :
          /\ category' = cat
          /\ items' = TuiItems(out, cat)
    /\ adapter' = "tui"
    /\ pc' = "selecting"
    /\ UNCHANGED <<tree, discovered, out, prev, seg_colors, selected, returned,
                   launched, call>>

(* What Skim::run_with may return over the items it was given.             *)
SelectorOutcomes(its) ==
    {NoSelection} \cup
    {[some |-> TRUE, is_abort |-> b, first |-> k] :
        b \in BOOLEAN, k \in 0 .. Len(its)}

(* ui.rs Picker::pick from the return of Skim::run_with.                   *)
SelectorReturns ==
    /\ pc = "selecting"
    /\ adapter = "ui"
    /\ \E sel \in SelectorOutcomes(items) :
          /\ selected' = sel
          /\ returned' = UiPickResult(out, category, items, sel)
    /\ pc' = "picked"
    /\ UNCHANGED <<tree, discovered, out, prev, adapter, category, seg_colors,
                   items, launched, call>>

(* tui.rs Picker::pick from the return of Skim::run_with, whose items are  *)
(* those the reader made of the buffer.                                    *)
TuiSelectorReturns ==
    /\ pc = "selecting"
    /\ adapter = "tui"
    /\ \E lines \in {ReaderItems(items)} :
          \E sel \in SelectorOutcomes(lines) :
             /\ selected' = sel
             /\ returned' = TuiPickResult(out, category, lines, sel)
    /\ pc' = "picked"
    /\ UNCHANGED <<tree, discovered, out, prev, adapter, category, seg_colors,
                   items, launched, call>>

(* main: edit::open_in_editor with the path of the entry picked; the run   *)
(* fails when the editor cannot be spawned or exits with a failure.        *)
LaunchEditor ==
    /\ pc = "picked"
    /\ returned /= None
    /\ launched' = Some(Unwrap(returned).path)
    /\ \E ok \in BOOLEAN : pc' = IF ok THEN "exit_ok" ELSE "exit_err"
    /\ UNCHANGED <<tree, discovered, out, prev, adapter, category, seg_colors,
                   items, selected, returned, call>>

(* main: nothing picked, Ok(()).                                           *)
ExitNoSelection ==
    /\ pc = "picked"
    /\ returned = None
    /\ pc' = "exit_ok"
    /\ UNCHANGED <<tree, discovered, out, prev, picking, call>>

(* One run of the program with the picker main.rs links (ui.rs).           *)
Next == Scan \/ PickBuild \/ SelectorReturns \/ LaunchEditor \/ ExitNoSelection

Spec == Init /\ [][Next]_vars

(* One run with either picker: the one of ui.rs or the one of tui.rs.      *)
NextPickers ==
    \/ Scan
    \/ PickBuild \/ SelectorReturns
    \/ TuiPickBuild \/ TuiSelectorReturns
    \/ LaunchEditor \/ ExitNoSelection

SpecPickers == Init /\ [][NextPickers]_vars

(* The program run again on the same tree: prev keeps what the scan of     *)
(* the run before returned.                                                *)
RunAgain ==
    /\ pc \in {"exit_ok", "exit_err"}
    /\ prev' = Some(out)
    /\ pc' = "start"
    /\ discovered' = << >>
    /\ out' = << >>
    /\ adapter' = "none"
    /\ category' = None
    /\ seg_colors' = FALSE
    /\ items' = << >>
    /\ selected' = NoSelection
    /\ returned' = None
    /\ launched' = None
    /\ UNCHANGED <<tree, call>>

NextRuns == Next \/ RunAgain

SpecRuns == Init /\ [][NextRuns]_vars

----------------------------------------------------------------------------
(* The functions of scan.rs on their own: call is the call in progress,    *)
(* [fn, <arguments>, done, ret], and the run of main() stays where it is.  *)

Idle ==
    /\ tree = {}
    /\ pc = "idle"
    /\ discovered = << >>
    /\ out = << >>
    /\ prev = None
    /\ adapter = "none"
    /\ category = None
    /\ seg_colors = FALSE
    /\ items = << >>
    /\ selected = NoSelection
    /\ returned = None
    /\ launched = None

(* The strings over an alphabet of at most n characters.                   *)
RECURSIVE StringsUpTo(_, _)
StringsUpTo(alphabet, n) ==
    IF n = 0 THEN {<< >>}
    ELSE {<< >>} \cup {<<c>> \o t : c \in alphabet, t \in StringsUpTo(alphabet, n - 1)}

\* the longest alias and the longest description strip_alias_prefix is given
MaxAlias == 2
MaxDesc == 4

\* a, A, b
AliasAlphabet == {97, 65, 98}
\* a, A, b, space, '-', em dash
DescAlphabet == {97, 65, 98, 32, 45, 8212}

(* The descriptions entry_for_path hands to strip_alias_prefix are what    *)
(* first_comment_line returns: trimmed and not empty.                      *)
DescInputs == {d \in StringsUpTo(DescAlphabet, MaxDesc) : d /= << >> /\ Trim(d) = d}

InitStrip ==
    /\ Idle
    /\ call \in {[fn |-> "strip_alias_prefix", alias |-> a, desc |-> d,
                  done |-> FALSE, ret |-> [panicked |-> FALSE, value |-> << >>]] :
                    a \in StringsUpTo(AliasAlphabet, MaxAlias), d \in DescInputs}

CallStrip ==
    /\ call.fn = "strip_alias_prefix"
    /\ ~call.done
    /\ call' = [call EXCEPT !.done = TRUE,
                            !.ret = strip_alias_prefix(call.alias, call.desc)]
    /\ UNCHANGED run

SpecStrip == InitStrip /\ [][CallStrip]_vars

\* the longest file stem alias_from_conf_d is given
MaxStem == 4

\* '0', '7', 'a', '-'
StemAlphabet == {48, 55, 97, 45}

(* The stems of drop-in files: they begin and end with a digit or a        *)
(* letter.                                                                 *)
StemInputs ==
    {st \in StringsUpTo(StemAlphabet, MaxStem) :
        st /= << >> /\ st[1] /= Ch.hyphen /\ st[Len(st)] /= Ch.hyphen}

InitAlias ==
    /\ Idle
    /\ call \in {[fn |-> "alias_from_conf_d", stem |-> st, done |-> FALSE,
                  ret |-> << >>] : st \in StemInputs}

CallAlias ==
    /\ call.fn = "alias_from_conf_d"
    /\ ~call.done
    /\ call' = [call EXCEPT !.done = TRUE, !.ret = alias_from_conf_d(call.stem)]
    /\ UNCHANGED run

SpecAlias == InitAlias /\ [][CallAlias]_vars

\* the longest line, and the most lines before it, of the files
\* first_comment_line is given
MaxLine == 2
MaxPad == 21

\* '#', '!', '/', ';', space, 'x'
LineAlphabet == {35, 33, 47, 59, 32, 120}

(* The lines a file is padded with: blank, a marker with nothing after it. *)
PadLines == {<< >>, <<35>>}

(* The lines after the padding: every short line, and a line that is not   *)
(* UTF-8.                                                                  *)
Lines == StringsUpTo(LineAlphabet, MaxLine) \cup {<<-255>>}

\* "// x"
LastLine == <<47, 47, 32, 120>>

(* The files that can be read: k equal pad lines, then any line, then      *)
(* "// x"; and the file without lines.                                      *)
FileLines ==
    {<< >>} \cup
    {[i \in 1 .. k |-> pad] \o <<l, LastLine>> :
        k \in 0 .. MaxPad, pad \in PadLines, l \in Lines}

(* The files that cannot be opened.                                        *)
UnreadableLines == {<< >>, <<LastLine>>}

(* The directory scan_configs finds a category in.                         *)
DirOf(cat) ==
    CASE cat \in {"Hyprland", "Utility"} -> "root"
      [] cat = "ConfD"   -> "conf.d"
      [] cat = "Themes"  -> "themes"
      [] cat = "Plugins" -> "plugins"
      [] cat = "Scripts" -> "scripts"

(* The call on a file of a category.                                       *)
CommentCall(cat, readable, lines) ==
    [fn |-> "first_comment_line",
     file |-> File(DirOf(cat), <<120>> \o DotConf, readable, lines, TRUE),
     cat |-> cat, done |-> FALSE, ret |-> None,
     pushed |-> [panicked |-> FALSE, entry |-> None]]

InitComment ==
    /\ Idle
    /\ \E cat \in {"Utility", "ConfD", "Scripts"} :
          \/ \E lines \in FileLines : call = CommentCall(cat, TRUE, lines)
          \/ \E lines \in UnreadableLines : call = CommentCall(cat, FALSE, lines)

(* scan_configs on one file: the description first_comment_line extracts   *)
(* and the entry pushed.                                                   *)
CallComment ==
    /\ call.fn = "first_comment_line"
    /\ ~call.done
    /\ call' = [call EXCEPT
                  !.done = TRUE,
                  !.ret = first_comment_line(call.file, MaxLinesFor(call.cat)),
                  !.pushed = Push(call.file, call.cat)]
    /\ UNCHANGED run

SpecComment == InitComment /\ [][CallComment]_vars

----------------------------------------------------------------------------
(* Properties.                                                             *)

(* d begins with a case-insensitive repetition of alias followed by a      *)
(* separator character.                                                    *)
RepeatsAlias(alias, d) ==
    /\ Len(d) > Len(alias)
    /\ ToLowercase(SubSeq(d, 1, Len(alias))) = ToLowercase(alias)
    /\ IsSeparator(d[Len(alias) + 1])

(* C1: no entry scan_configs returns, whatever its category, has a         *)
(* description that begins with a case-insensitive repetition of its alias *)
(* followed by a separator character.                                      *)
C1_NoAliasRepetition ==
    pc = "scanned" =>
        \A i \in 1 .. Len(out) :
            out[i].description /= None =>
                ~RepeatsAlias(out[i].alias, Unwrap(out[i].description))

(* The separators the specification lists: space, the hyphen variants,     *)
(* colon, pipe.                                                            *)
ListedSeparators == {Ch.sp, Ch.hyphen, Ch.endash, Ch.emdash, Ch.colon, Ch.pipe}

(* d begins, compared case-insensitively, with alias.                      *)
BeginsWith(alias, d) ==
    Len(d) >= Len(alias) /\ ToLowercase(SubSeq(d, 1, Len(alias))) = ToLowercase(alias)

(* d without its first n characters and the listed separators that follow  *)
(* them.                                                                   *)
AfterSeparators(d, n) ==
    SubSeq(d, CHOOSE j \in n + 1 .. Len(d) + 1 :
                 /\ \A i \in n + 1 .. j - 1 : d[i] \in ListedSeparators
                 /\ (j <= Len(d) => d[j] \notin ListedSeparators),
           Len(d))

(* C2: strip_alias_prefix(alias, desc) is desc without the alias and the   *)
(* separators after it when desc begins (case-insensitively) with alias    *)
(* followed by a listed separator, and is desc itself when desc begins     *)
(* with alias followed by another character or does not begin with alias.  *)
C2_StripOnlyBeforeSeparator ==
    (call.fn = "strip_alias_prefix" /\ call.done) =>
        IF BeginsWith(call.alias, call.desc) /\ Len(call.desc) > Len(call.alias)
        THEN IF call.desc[Len(call.alias) + 1] \in ListedSeparators
             THEN call.ret = [panicked |-> FALSE,
                              value |-> AfterSeparators(call.desc, Len(call.alias))]
             ELSE call.ret = [panicked |-> FALSE, value |-> call.desc]
        ELSE BeginsWith(call.alias, call.desc)
             \/ call.ret = [panicked |-> FALSE, value |-> call.desc]

Digits == 48 .. 57

(* The length of the leading `number + '-'` prefix of a stem, 0 when it    *)
(* has none.                                                               *)
NumberPrefix(stem) ==
    IF \E k \in 2 .. Len(stem) :
          stem[k] = Ch.hyphen /\ \A i \in 1 .. k - 1 : stem[i] \in Digits
    THEN CHOOSE k \in 2 .. Len(stem) :
            stem[k] = Ch.hyphen /\ \A i \in 1 .. k - 1 : stem[i] \in Digits
    ELSE 0

(* C3: the alias of a drop-in file is its stem without the leading         *)
(* `number + '-'` prefix when the stem has one, and the stem itself        *)
(* otherwise (also when what precedes the first '-' is not a number).      *)
C3_OnlyNumberPrefixStripped ==
    (call.fn = "alias_from_conf_d" /\ call.done) =>
        call.ret = SubSeq(call.stem, NumberPrefix(call.stem) + 1, Len(call.stem))

(* The markers of a comment line, and the text of a trimmed line after     *)
(* its marker, however often the marker is repeated.                       *)
MarkerOf(t) ==
    IF t /= << >> /\ t[1] \in {Ch.hash, Ch.semi} THEN <<t[1]>>
    ELSE IF Len(t) >= 2 /\ t[1] = Ch.slash /\ t[2] = Ch.slash THEN <<Ch.slash, Ch.slash>>
    ELSE << >>

AfterMarker(t, m) ==
    SubSeq(t, CHOOSE j \in 1 .. Len(t) + 1 :
                 /\ (j - 1) % Len(m) = 0
                 /\ \A i \in 1 .. j - 1 : t[i] = m[((i - 1) % Len(m)) + 1]
                 /\ ~(j + Len(m) - 1 <= Len(t) /\ SubSeq(t, j, j + Len(m) - 1) = m),
           Len(t))

(* The candidate description of a line: the trimmed line, which is no      *)
(* shebang and begins with a marker, without the marker and the            *)
(* whitespace around; the empty string when the line gives none.           *)
CandidateOfTrimmed(t) ==
    IF MarkerOf(t) = << >> \/ (Len(t) >= 2 /\ t[1] = Ch.hash /\ t[2] = Ch.bang)
    THEN << >>
    ELSE Trim(AfterMarker(t, MarkerOf(t)))

CandidateOf(line) == IF ValidUtf8(line) THEN CandidateOfTrimmed(Trim(line)) ELSE << >>

(* The line budget of a category: 20 for Utility, 10 for every other.      *)
Budget(cat) == IF cat = "Utility" THEN 20 ELSE 10

(* The lines of the call that give a candidate, and those among the first  *)
(* N.                                                                      *)
Qualifying == {i \in 1 .. Len(call.file.lines) : CandidateOf(call.file.lines[i]) /= << >>}
WithinBudget == {i \in Qualifying : i <= Budget(call.cat)}

----------------------------------------------------------------------------
(* The order of the entries scan_configs returns.                          *)

(* The secondary string of the key: the alias, the file name for conf.d,   *)
(* lower-cased.                                                            *)
SecondaryString(e) ==
    ToLowercase(IF e.category = "ConfD" THEN e.file_name ELSE e.alias)

SameKey(a, b) ==
    CatOrder(a.category) = CatOrder(b.category)
    /\ SecondaryString(a) = SecondaryString(b)

KeyBefore(a, b) ==
    \/ CatOrder(a.category) < CatOrder(b.category)
    \/ /\ CatOrder(a.category) = CatOrder(b.category)
       /\ StrLess(SecondaryString(a), SecondaryString(b))

(* Where the scan pushed an entry.                                         *)
DiscoveredAt(e) == CHOOSE i \in 1 .. Len(discovered) : discovered[i] = e

(* C5: the ranks of the six categories are pairwise distinct, the entries  *)
(* scan_configs returns are those the scan discovered, every adjacent pair *)
(* is non-decreasing under the key (rank, lower-cased alias, or file name  *)
(* for conf.d), and entries with equal keys are in the order in which the  *)
(* scan discovered them.                                                   *)
C5_SortedByKeyStable ==
    /\ \A c, d \in Categories : c /= d => CatOrder(c) /= CatOrder(d)
    /\ Len(out) = Len(discovered)
    /\ \A i \in 1 .. Len(out) : \E j \in 1 .. Len(discovered) : discovered[j] = out[i]
    /\ \A i \in 1 .. Len(out) - 1 : ~KeyBefore(out[i + 1], out[i])
    /\ \A i, j \in 1 .. Len(out) :
          (i < j /\ SameKey(out[i], out[j]))
             => DiscoveredAt(out[i]) < DiscoveredAt(out[j])

(* A scan that the sort reordered and that holds two entries of one key.   *)
C5_Witness ==
    /\ pc = "scanned"
    /\ out /= discovered
    /\ \E i, j \in 1 .. Len(out) : i < j /\ SameKey(out[i], out[j])

(* C6: a scan of a tree that has not changed returns the sequence the scan *)
(* of the run before returned, whatever order the directories are listed   *)
(* in.                                                                     *)
C6_RescanSameOrder ==
    (prev /= None /\ pc \notin {"start", "panicked"}) => out = Unwrap(prev)

----------------------------------------------------------------------------
(* The lines build_colored_line renders.                                   *)

(* The entry the item at position i was built from.                        *)
EntryOfItem(i) == Filtered(out, category)[i]

(* The characters of a string in a half-open range of character offsets.   *)
Slice(text, range) == SubSeq(text, range[1] + 1, range[2])

(* "| <file> (<path>)"                                                     *)
TrailingText(e) ==
    <<124, 32>> \o e.file_name \o <<32, 40>>
    \o Lossy(DirPrefix(e.path.dir) \o e.path.name)
    \o <<41>>

RoundTrip(e, text, fr) ==
    /\ Len(fr) \in {3, 4}
    /\ Slice(text, fr[1]) = CategoryLabel(e.category)
    /\ Slice(text, fr[2]) = e.alias
    /\ Len(fr) = 4 => (e.description /= None /\ Slice(text, fr[3]) = Unwrap(e.description))
    /\ Slice(text, fr[Len(fr)]) = TrailingText(e)
    /\ \A k \in 1 .. Len(fr) : 0 <= fr[k][1] /\ fr[k][1] <= fr[k][2] /\ fr[k][2] <= Len(text)
    /\ \A k \in 1 .. Len(fr) - 1 : fr[k][2] < fr[k + 1][1]
    /\ fr[Len(fr)][2] = Len(text)

(* C7: with segment coloring enabled, the display string of every item     *)
(* sliced by its annotated ranges of character offsets gives, in order,    *)
(* the category label, the alias, the description when it is emitted and   *)
(* the trailing "| file (path)" text; the ranges are left to right, do not *)
(* overlap, lie within the string, and the last ends at its length in      *)
(* characters.                                                             *)
C7_RenderRoundTrip ==
    (adapter = "ui" /\ seg_colors) =>
       \A i \in 1 .. Len(items) :
          /\ items[i].display.text = items[i].text
          /\ RoundTrip(EntryOfItem(i), items[i].text, items[i].display.fragments)

(* An item colored in four segments whose description and separator hold   *)
(* characters of more than one byte.                                       *)
C7_Witness ==
    /\ pc = "selecting"
    /\ adapter = "ui"
    /\ seg_colors
    /\ \E i \in 1 .. Len(items) :
          /\ Len(items[i].display.fragments) = 4
          /\ \E c \in 1 .. Len(Unwrap(EntryOfItem(i).description)) :
                Unwrap(EntryOfItem(i).description)[c] > 127
          /\ StrLen(items[i].text) > Len(items[i].text)

(* "[<label>] <alias><sep><description> | <file> (<path>)"                 *)
PlainText(e, sep, desc) ==
    <<91>> \o CategoryLabel(e.category) \o <<93, 32>> \o e.alias \o sep \o desc
    \o <<32>> \o TrailingText(e)

PlainOf(e, text) ==
    IF e.description = None THEN text = PlainText(e, << >>, << >>)
    ELSE \E sep \in {<< >>, UiSep} : text = PlainText(e, sep, Unwrap(e.description))

(* C8: with segment coloring enabled an item has four annotated ranges     *)
(* when the description of its entry is present and three, with no         *)
(* separator in the text, when it is absent; with segment coloring         *)
(* disabled it has none; the text is the same formatted line in both       *)
(* modes.                                                                  *)
C8_RangeCount ==
    adapter = "ui" =>
       \A i \in 1 .. Len(items) :
          /\ (seg_colors /\ EntryOfItem(i).description /= None)
                => Len(items[i].display.fragments) = 4
          /\ (seg_colors /\ EntryOfItem(i).description = None)
                => Len(items[i].display.fragments) = 3
          /\ ~seg_colors => Len(items[i].display.fragments) = 0
          /\ PlainOf(EntryOfItem(i), items[i].text)

----------------------------------------------------------------------------
(* The items and the result of Picker::pick.                               *)

(* The positions in out of the entries the category filter admits.         *)
Matching ==
    {j \in 1 .. Len(out) : category = None \/ out[j].category = Unwrap(category)}

(* The k-th of them, in the order of out.                                  *)
NthMatching(k) ==
    CHOOSE j \in Matching : Cardinality({m \in Matching : m < j}) = k - 1

BuiltFrom(item, e, k) ==
    IF adapter = "ui"
    THEN item = ColoredItem(e, build_colored_line(e, seg_colors), k - 1)
    ELSE item = [text |-> TuiLine(e, k - 1)]

C10_ConfirmReturnsChosen ==
    (pc = "picked" /\ adapter = "ui" /\ selected.some /\ ~selected.is_abort
        /\ selected.first > 0)
       => returned = Some(EntryOfItem(selected.first))


----------------------------------------------------------------------------
(* Abort and the launch of the editor.                                     *)

(* The selector signalled abort: nothing is returned, nothing is launched  *)
(* and the run does not fail.                                              *)
AbortIsNoSelection ==
    (pc \in {"picked", "exit_ok", "exit_err"} /\ selected.some /\ selected.is_abort)
       => (returned = None /\ launched = None /\ pc /= "exit_err")

(* What has been launched is the path of the entry pick returned.          *)
LaunchedIsReturned ==
    launched /= None
       => (returned /= None /\ launched = Some(Unwrap(returned).path))

(* A step that changes launched is the one launch of the run, after pick   *)
(* returned an entry.                                                      *)
LaunchStep ==
    launched' /= launched
       => /\ launched = None
          /\ pc = "picked"
          /\ returned /= None
          /\ launched' = Some(Unwrap(returned).path)

(* C11: when the selector signals abort, whatever items it reports as      *)
(* selected, Picker::pick returns no selection and the run ends            *)
(* successfully with no editor launched; the editor is launched at most    *)
(* once in a run, only after pick returned an entry, and with the path of  *)
(* that entry.                                                             *)
C11_AbortAndSingleLaunch ==
    [](AbortIsNoSelection /\ LaunchedIsReturned) /\ [][LaunchStep]_vars

(* A run that ended after an abort that reported a selected item.          *)
C11_Witness ==
    /\ pc = "exit_ok"
    /\ selected.some
    /\ selected.is_abort
    /\ selected.first > 0
    /\ launched = None


----------------------------------------------------------------------------
(* The descriptions of the entries scan_configs returns.                   *)

(* A string with a character that is no blank at both ends.                *)
NonEmptyTrimmed(d) ==
    d /= << >> /\ ~IsWhitespace(d[1]) /\ ~IsWhitespace(d[Len(d)])

(* C12: the description of every entry scan_configs returns, when it is    *)
(* present, is a non-empty string with no leading or trailing whitespace;  *)
(* a comment that is only the alias gives an absent description.           *)
C12_PresentDescriptionNonEmpty ==
    \A i \in 1 .. Len(out) :
       out[i].description /= None => NonEmptyTrimmed(Unwrap(out[i].description))

====
